---- MODULE Spec2Model ----
(***************************************************************************)
(* dsp/modules/gpt4vision.py: the GPT4Vision client.  A call goes          *)
(*   __call__ -> request (backoff.on_exception) -> basic_request           *)
(*            -> chat_request -> lru_cache memo -> persistent cache        *)
(*            -> openai.chat.completions.create                            *)
(* and the response is normalised into a list of completion texts.         *)
(*                                                                         *)
(* Encoding.  A Python dict is a sequence of <<name, value>> pairs in      *)
(* insertion order.  json.dumps keeps that order, so the serialised        *)
(* request is that sequence itself; json.loads forgets the order and       *)
(* yields the set of pairs.  A message's content is <<prompt>> for the     *)
(* plain string and <<prompt, url>> for the [text part, image part] list.  *)
(***************************************************************************)
EXTENDS Integers, Sequences, FiniteSets, TLC

VARIABLES
  cache_turn_on,  \* cache_utils.cache_turn_on: memo capacity unbounded / zero
  persist_on,     \* whether CacheMemory is a real store
  concurrent,     \* whether calls of different callers may overlap
  self,           \* instance -> [kwargs, system_prompt, model_type]
  history,        \* instance -> self.history
  memo,           \* the lru_cache of cached_gpt4vision_chat_request_wrapped
  store,          \* the persistent store behind CacheMemory.cache
  pc,             \* caller -> position
  fr,             \* caller -> the frame of its call: arguments, locals, and
                  \*   err (what the current attempt raised) and fresh (its
                  \*   key was in neither tier when the attempt began)
  out,            \* caller -> what its last __call__ raised or returned
  net,            \* caller -> network invocations of its current attempt
  returned,       \* the <<key, response>> pairs the network has returned
  callsLeft,      \* __call__ invocations still to be started
  profile         \* which slice of the inputs and the environment is explored

vars == <<cache_turn_on, persist_on, concurrent, self, history, memo, store,
          pc, fr, out, net, returned, callsLeft, profile>>

---------------------------------------------------------------------------
\* Bounds of the model.
MaxCalls    == 2   \* __call__ invocations in a run
MaxChoices  == 2   \* choices in a response
MaxKwargs   == 2   \* call-level keyword arguments
MaxCallDur  == 1   \* time units one network call may take

\* max_time of the backoff decorator.
MaxTime == 10

Callers == {"c1", "c2"}
Insts   == {"A", "B"}
None    == "None"

---------------------------------------------------------------------------
\* Python dicts as sequences of <<name, value>> pairs.
Names(d) == {d[i][1] : i \in DOMAIN d}

Items(d) == {d[i] : i \in DOMAIN d}

Get(d, k) == d[CHOOSE i \in DOMAIN d : d[i][1] = k][2]

\* d[k] = v: an existing name keeps its position, a new one goes last.
DictSet(d, k, v) ==
  IF k \in Names(d)
    THEN [i \in DOMAIN d |-> IF d[i][1] = k THEN <<k, v>> ELSE d[i]]
    ELSE Append(d, <<k, v>>)

MergeFirstWins(a, b) == a \o SelectSeq(b, LAMBDA p : p[1] \notin Names(a))

\* {**a, **b}
RECURSIVE Merge(_, _)
Merge(a, b) ==
  IF b = <<>> THEN a
  ELSE Merge(DictSet(a, Head(b)[1], Head(b)[2]), Tail(b))

\* del d[k]
DictDel(d, k) == SelectSeq(d, LAMBDA p : p[1] # k)

---------------------------------------------------------------------------
\* GPT4Vision.__init__: the default options, then the constructor's keyword
\* arguments, then "model"; model_type defaults to "vision".
Defaults ==
  << <<"temperature", 0>>, <<"max_tokens", 150>>, <<"top_p", 1>>,
     <<"frequency_penalty", 0>>, <<"presence_penalty", 0>>, <<"n", 1>> >>

Construct(model, model_type, system_prompt, kwargs) ==
  [ kwargs        |-> DictSet(Merge(Defaults, kwargs), "model", model),
    system_prompt |-> system_prompt,
    model_type    |-> IF model_type # None THEN model_type ELSE "vision" ]

\* Image.init_from(image).image_url: the reference of a supported input;
\* an unsupported input raises InvalidInput.
ImageOk(image) == image # "bad"

ImageUrl(image) == <<"data", image>>

\* basic_request, lines 103-121: the message list.
Messages(system_prompt, prompt, image) ==
  LET content == IF image # None THEN <<prompt>> \o ImageUrl(image)
                                 ELSE <<prompt>>
      user    == <<[role |-> "user", content |-> content]>>
  IN  IF system_prompt # None
        THEN <<[role |-> "system", content |-> <<system_prompt>>]>> \o user
        ELSE user

\* request, lines 150-151.
StripModelType(kwargs) ==
  IF "model_type" \in Names(kwargs) THEN DictDel(kwargs, "model_type")
                                    ELSE kwargs

\* basic_request, lines 101 and 122: the request dict.
RequestDict(inst, prompt, image, kwargs) ==
  DictSet(Merge(inst.kwargs, kwargs), "messages",
          Messages(inst.system_prompt, prompt, image))

\* json.dumps(kwargs): one entry per name, in the dict's order.
Dumps(kwargs) == [i \in DOMAIN kwargs |-> kwargs[i]]

\* json.loads(s), line 232: the mapping the string denotes.
Loads(s) == Items(s)

\* basic_request, line 124: the cache key of a call.
CacheKey(inst, prompt, image, kwargs) ==
  Dumps(RequestDict(inst, prompt, image, kwargs))

---------------------------------------------------------------------------
\* A choice of a chat completion as model_dump gives it: finish_reason,
\* message.content, and logprobs.content, one entry per token.
Choice(finish, text, logprobs) ==
  [finish_reason |-> finish, message |-> [content |-> text],
   logprobs |-> [content |-> logprobs]]

Tok(token, logprob) == [token |-> token, logprob |-> logprob]

EndOfText == "<|endoftext|>"

Texts == <<"t1", "t2", "t3", "t4">>

Finishes == {"stop", "length"}

\* Token log-probabilities in tenths: means -1.0, -1.0 again, and -0.1 up
\* to the end-of-text token.
LogprobPool ==
  { <<Tok("a", -10), Tok("b", -10)>>,
    <<Tok("a", -10)>>,
    <<Tok("a", -1), Tok(EndOfText, -1), Tok("b", -40)>> }

\* The responses the endpoint may return: every list of at most MaxChoices
\* choices, the choice at position i carrying text Texts[i].
Responses ==
  UNION { { [i \in 1..n |-> Choice(f[i], Texts[i], l[i])] :
              f \in [1..n -> Finishes], l \in [1..n -> LogprobPool] }
          : n \in 0..MaxChoices }

\* _get_choice_text: <<TRUE, text>>, or <<FALSE, "KeyError">> when the
\* choice has no "text" entry.
get_choice_text(model_type, choice) ==
  IF model_type = "chat" THEN <<TRUE, choice.message.content>>
  ELSE IF "text" \in DOMAIN choice THEN <<TRUE, choice.text>>
  ELSE <<FALSE, "KeyError">>

\* __call__, lines 188-215, on the response of request.  Past the
\* assertions only_completed is true and return_sorted false; the sorting
\* branch reads c["logprobs"]["tokens"], which no chat completion has.
Completions(model_type, response, only_completed, return_sorted, n) ==
  LET choices   == response
      completed == SelectSeq(choices, LAMBDA c : c.finish_reason # "length")
      kept      == IF only_completed /\ Len(completed) # 0 THEN completed
                                                           ELSE choices
      got       == [i \in DOMAIN kept |-> get_choice_text(model_type, kept[i])]
  IN  IF \E i \in DOMAIN got : ~got[i][1]
        THEN [outcome |-> "KeyError", value |-> <<>>]
      ELSE IF /\ return_sorted /\ n > 1
              /\ \E i \in DOMAIN kept : "tokens" \notin DOMAIN kept[i].logprobs
        THEN [outcome |-> "KeyError", value |-> <<>>]
      ELSE [outcome |-> "ok", value |-> [i \in DOMAIN got |-> got[i][2]]]

\* kwargs.get("n", 1), line 196.
RequestedN(kwargs) == IF "n" \in Names(kwargs) THEN Get(kwargs, "n") ELSE 1

---------------------------------------------------------------------------
\* The two cache tiers, each a function from the keys it holds to responses.
Empty == <<>>

Holds(tier, key) == key \in DOMAIN tier

Put(tier, key, value) ==
  [k \in DOMAIN tier \cup {key} |-> IF k = key THEN value ELSE tier[k]]

MemoHitNever(key) == FALSE

\* functools.lru_cache(maxsize=None if cache_turn_on else 0): lookup, store.
MemoHit(key) == cache_turn_on /\ Holds(memo, key)

MemoPutNever(key, value) == memo

MemoPutAnyCapacity(key, value) == Put(memo, key, value)

MemoPut(key, value) == IF cache_turn_on THEN Put(memo, key, value) ELSE memo

\* CacheMemory.cache: lookup, store.
StoreHit(key) == persist_on /\ Holds(store, key)

StorePut(key, value) == IF persist_on THEN Put(store, key, value) ELSE store

---------------------------------------------------------------------------
\* backoff.expo: the wait after the k-th failure; full jitter draws the
\* delay in 0..wait, and the delay never exceeds max_time - elapsed.
Expo(tries) == 2 ^ (tries - 1)

Min(a, b) == IF a < b THEN a ELSE b

MaxDelayUncapped(tries, elapsed) == Expo(tries)

MaxDelay(tries, elapsed) == Min(Expo(tries), MaxTime - elapsed)

\* The attempt counter, kept exact until the wait exceeds max_time.
NextTries(tries) == IF tries > 0 /\ Expo(tries) >= MaxTime THEN tries
                                                          ELSE tries + 1

NetErrors == {"RateLimited", "TransportError"}

ERRORS_Any == NetErrors

\* ERRORS: the exceptions request retries on.
ERRORS == {"RateLimited"}

---------------------------------------------------------------------------
\* The arguments of the calls explored.
OptPairs == {<<"seed", 7>>, <<"logprobs", 1>>, <<"n", 2>>}

RECURSIVE KwargsUpTo(_)
KwargsUpTo(n) ==
  IF n = 0 THEN {<<>>}
  ELSE LET shorter == KwargsUpTo(n - 1)
       IN  shorter \cup {Append(k, p) : k \in shorter, p \in OptPairs}

CallKwargs ==
  {k \in KwargsUpTo(MaxKwargs) : Cardinality(Names(k)) = Len(k)}

Args(prompt, image, only_completed, return_sorted, kwargs) ==
  [prompt |-> prompt, image |-> image, only_completed |-> only_completed,
   return_sorted |-> return_sorted, kwargs |-> kwargs]

Base == Args("p", None, TRUE, FALSE, <<>>)

Model == "gpt-4-vision-preview"

\* The slices.  Each explores one dimension in full and keeps the others
\* small:
\*   retry: one caller; every delay and call duration, every network error;
\*   cache: one caller; every setting of the two tiers, several keys, a
\*          refused call;
\*   race:  two overlapping callers on the same and on different keys;
\*   keys:  every order of the call-level and constructor options;
\*   norm:  one call; every response shape, model_type and __call__ flag.
Profiles == {"retry", "cache", "race", "keys", "norm"}

ArgPool ==
  CASE profile = "retry" -> {Base}
    [] profile = "cache" -> {Base} \cup {[Base EXCEPT !.image = i] : i \in {"img", "bad"}}
                              \cup {[Base EXCEPT !.kwargs = <<<<"model_type", "chat">>>>]}
                              \cup {[Base EXCEPT !.only_completed = FALSE]}
    [] profile = "race"  -> {Base, [Base EXCEPT !.image = "img"]}
    [] profile = "keys"  -> {[Base EXCEPT !.kwargs = k] : k \in CallKwargs}
    [] profile = "norm"  -> {Args("p", None, oc, rs, k) :
                               oc \in BOOLEAN, rs \in BOOLEAN,
                               k \in {<<>>, <<<<"n", 2>>>>}}

InstPool == IF profile \in {"retry", "race", "norm"} THEN {"A"} ELSE Insts

RespPool ==
  IF profile = "norm" THEN Responses
  ELSE IF profile = "keys" THEN {<<Choice("stop", Texts[1], <<Tok("a", -10)>>)>>}
  ELSE {<<Choice(f, Texts[1], <<Tok("a", -10)>>)>> : f \in Finishes}

ErrPool == IF profile \in {"keys", "norm"} THEN {} ELSE NetErrors

\* The time a network call takes, and the delays full jitter may draw.
DurPool == IF profile = "retry" THEN 0..MaxCallDur ELSE {0}

DelayPool(max) == IF profile = "retry" THEN 0..max ELSE {max}

SelfPool ==
  CASE profile \in {"retry", "cache", "race"} ->
         {[A |-> Construct(Model, None, None, <<>>),
           B |-> Construct(Model, "chat", "sys", <<>>)]}
    [] profile = "keys" ->
         {[A |-> Construct(Model, None, None, <<>>),
           B |-> Construct(Model, None, None, <<<<"logprobs", 1>>>>)]}
    [] profile = "norm" ->
         {[A |-> Construct(Model, mt, None, <<>>),
           B |-> Construct(Model, "chat", "sys", <<>>)] :
          mt \in {None, "chat", "text", "vision"}}

NoFrame ==
  [inst |-> None, args |-> Base, key |-> <<>>, tries |-> 0, elapsed |-> 0,
   clock |-> 0, slept |-> 0, err |-> None, fresh |-> FALSE, resp |-> <<>>]

\* The frame of a call that has ended: its timers are gone.
Ended(f) == [f EXCEPT !.elapsed = 0, !.clock = 0, !.slept = 0]

NoOut == [outcome |-> "none", value |-> <<>>]

Idle(c) == pc[c] \in {"idle", "done"}

---------------------------------------------------------------------------
Init ==
  /\ profile \in Profiles
  /\ cache_turn_on \in (IF profile = "cache" THEN BOOLEAN ELSE {TRUE})
  /\ persist_on \in (IF profile = "cache" THEN BOOLEAN ELSE {TRUE})
  /\ concurrent = (profile = "race")
  /\ self \in SelfPool
  /\ history = [i \in Insts |-> <<>>]
  /\ memo = Empty
  /\ store = Empty
  /\ pc = [c \in Callers |-> "idle"]
  /\ fr = [c \in Callers |-> NoFrame]
  /\ out = [c \in Callers |-> NoOut]
  /\ net = [c \in Callers |-> 0]
  /\ returned = {}
  /\ callsLeft = (IF profile = "norm" THEN 1 ELSE MaxCalls)

CallWithoutAssertions(c, i, a) ==
  /\ Idle(c)
  /\ callsLeft > 0
  /\ concurrent \/ (c = "c1" /\ \A d \in Callers : Idle(d))
  /\ callsLeft' = callsLeft - 1
  /\ fr' = [fr EXCEPT ![c] = [NoFrame EXCEPT !.inst = i, !.args = a]]
  /\ net' = [net EXCEPT ![c] = 0]
  /\ pc' = [pc EXCEPT ![c] = "attempt"]
  /\ out' = [out EXCEPT ![c] = NoOut]
  /\ UNCHANGED <<cache_turn_on, persist_on, concurrent, self, history, memo,
                 store, returned, profile>>

\* __call__, lines 180-183: the assertions, then the first attempt of request.
Call(c, i, a) ==
  /\ Idle(c)
  /\ callsLeft > 0
  /\ concurrent \/ (c = "c1" /\ \A d \in Callers : Idle(d))
  /\ callsLeft' = callsLeft - 1
  /\ fr' = [fr EXCEPT ![c] = [NoFrame EXCEPT !.inst = i, !.args = a]]
  /\ net' = [net EXCEPT ![c] = 0]
  /\ IF a.only_completed /\ ~a.return_sorted
       THEN /\ pc' = [pc EXCEPT ![c] = "attempt"]
            /\ out' = [out EXCEPT ![c] = NoOut]
       ELSE /\ pc' = [pc EXCEPT ![c] = "done"]
            /\ out' = [out EXCEPT ![c] =
                         [outcome |-> "AssertionError", value |-> <<>>]]
  /\ UNCHANGED <<cache_turn_on, persist_on, concurrent, self, history, memo,
                 store, returned, profile>>

AttemptUpdatesDefaults(c) ==
  /\ pc[c] = "attempt"
  /\ LET f      == fr[c]
         kwargs == StripModelType(f.args.kwargs)
         key    == CacheKey(self[f.inst], f.args.prompt, f.args.image, kwargs)
         g      == [f EXCEPT !.tries = NextTries(f.tries),
                             !.elapsed = f.clock, !.err = None]
     IN  /\ net' = [net EXCEPT ![c] = 0]
         /\ IF f.args.image # None /\ ~ImageOk(f.args.image)
              THEN /\ fr' = [fr EXCEPT ![c] =
                                [Ended(g) EXCEPT !.err = "InvalidInput"]]
                   /\ pc' = [pc EXCEPT ![c] = "done"]
                   /\ out' = [out EXCEPT ![c] =
                                [outcome |-> "InvalidInput", value |-> <<>>]]
              ELSE /\ out' = out
                   /\ IF MemoHit(key)
                        THEN /\ fr' = [fr EXCEPT ![c] =
                                        [g EXCEPT !.key = key,
                                                  !.fresh = FALSE,
                                                  !.resp = memo[key]]]
                             /\ pc' = [pc EXCEPT ![c] = "ret"]
                        ELSE /\ fr' = [fr EXCEPT ![c] =
                                        [g EXCEPT !.key = key,
                                                  !.fresh = ~Holds(memo, key)
                                                            /\ ~Holds(store, key)]]
                             /\ pc' = [pc EXCEPT ![c] = "store_get"]
  /\ self' = [self EXCEPT ![fr[c].inst].kwargs =
                          Merge(@, StripModelType(fr[c].args.kwargs))]
  /\ UNCHANGED <<cache_turn_on, persist_on, concurrent, history, memo,
                 store, returned, callsLeft, profile>>

\* One pass of the retry loop up to the memo lookup: backoff counts the try
\* and reads the elapsed time, request drops model_type, basic_request
\* resolves the image and builds the key, and lru_cache looks the key up.
Attempt(c) ==
  /\ pc[c] = "attempt"
  /\ LET f      == fr[c]
         kwargs == StripModelType(f.args.kwargs)
         key    == CacheKey(self[f.inst], f.args.prompt, f.args.image, kwargs)
         g      == [f EXCEPT !.tries = NextTries(f.tries),
                             !.elapsed = f.clock, !.err = None]
     IN  /\ net' = [net EXCEPT ![c] = 0]
         /\ IF f.args.image # None /\ ~ImageOk(f.args.image)
              THEN /\ fr' = [fr EXCEPT ![c] =
                                [Ended(g) EXCEPT !.err = "InvalidInput"]]
                   /\ pc' = [pc EXCEPT ![c] = "done"]
                   /\ out' = [out EXCEPT ![c] =
                                [outcome |-> "InvalidInput", value |-> <<>>]]
              ELSE /\ out' = out
                   /\ IF MemoHit(key)
                        THEN /\ fr' = [fr EXCEPT ![c] =
                                        [g EXCEPT !.key = key,
                                                  !.fresh = FALSE,
                                                  !.resp = memo[key]]]
                             /\ pc' = [pc EXCEPT ![c] = "ret"]
                        ELSE /\ fr' = [fr EXCEPT ![c] =
                                        [g EXCEPT !.key = key,
                                                  !.fresh = ~Holds(memo, key)
                                                            /\ ~Holds(store, key)]]
                             /\ pc' = [pc EXCEPT ![c] = "store_get"]
  /\ UNCHANGED <<cache_turn_on, persist_on, concurrent, self, history, memo,
                 store, returned, callsLeft, profile>>

StoreGetAlwaysCalls(c) ==
  /\ pc[c] = "store_get"
  /\ fr' = fr
  /\ pc' = [pc EXCEPT ![c] = "net"]
  /\ UNCHANGED <<cache_turn_on, persist_on, concurrent, self, history, memo,
                 store, out, net, returned, callsLeft, profile>>

\* CacheMemory.cache on a memo miss: a stored response is returned to the
\* memo layer, a missing one sends the call to the network.
StoreGet(c) ==
  /\ pc[c] = "store_get"
  /\ IF StoreHit(fr[c].key)
       THEN /\ fr' = [fr EXCEPT ![c].resp = store[fr[c].key]]
            /\ pc' = [pc EXCEPT ![c] = "memo_put"]
       ELSE /\ fr' = fr
            /\ pc' = [pc EXCEPT ![c] = "net"]
  /\ UNCHANGED <<cache_turn_on, persist_on, concurrent, self, history, memo,
                 store, out, net, returned, callsLeft, profile>>

NetOkSkipsStore(c, d, r) ==
  /\ pc[c] = "net"
  /\ fr' = [fr EXCEPT ![c].resp = r, ![c].clock = @ + d]
  /\ net' = [net EXCEPT ![c] = @ + 1]
  /\ returned' = returned \cup {<<fr[c].key, r>>}
  /\ pc' = [pc EXCEPT ![c] = "memo_put"]
  /\ UNCHANGED <<cache_turn_on, persist_on, concurrent, self, history, memo,
                 store, out, callsLeft, profile>>

\* openai.chat.completions.create returns a response after d time units.
NetOk(c, d, r) ==
  /\ pc[c] = "net"
  /\ fr' = [fr EXCEPT ![c].resp = r, ![c].clock = @ + d]
  /\ net' = [net EXCEPT ![c] = @ + 1]
  /\ returned' = returned \cup {<<fr[c].key, r>>}
  /\ pc' = [pc EXCEPT ![c] = "store_put"]
  /\ UNCHANGED <<cache_turn_on, persist_on, concurrent, self, history, memo,
                 store, out, callsLeft, profile>>

NetRaiseCached(c, d, e) ==
  /\ pc[c] = "net"
  /\ net' = [net EXCEPT ![c] = @ + 1]
  /\ memo' = MemoPut(fr[c].key, <<>>)
  /\ IF e \in ERRORS
       THEN /\ fr' = [fr EXCEPT ![c].clock = @ + d, ![c].err = e]
            /\ pc' = [pc EXCEPT ![c] = "caught"]
            /\ out' = out
       ELSE /\ fr' = [fr EXCEPT ![c] = [Ended(@) EXCEPT !.err = e]]
            /\ pc' = [pc EXCEPT ![c] = "done"]
            /\ out' = [out EXCEPT ![c] = [outcome |-> e, value |-> <<>>]]
  /\ UNCHANGED <<cache_turn_on, persist_on, concurrent, self, history,
                 store, returned, callsLeft, profile>>

\* openai.chat.completions.create raises e after d time units: an error in
\* ERRORS is caught by backoff, any other leaves request.
NetRaise(c, d, e) ==
  /\ pc[c] = "net"
  /\ net' = [net EXCEPT ![c] = @ + 1]
  /\ IF e \in ERRORS
       THEN /\ fr' = [fr EXCEPT ![c].clock = @ + d, ![c].err = e]
            /\ pc' = [pc EXCEPT ![c] = "caught"]
            /\ out' = out
       ELSE /\ fr' = [fr EXCEPT ![c] = [Ended(@) EXCEPT !.err = e]]
            /\ pc' = [pc EXCEPT ![c] = "done"]
            /\ out' = [out EXCEPT ![c] = [outcome |-> e, value |-> <<>>]]
  /\ UNCHANGED <<cache_turn_on, persist_on, concurrent, self, history, memo,
                 store, returned, callsLeft, profile>>

\* CacheMemory.cache persists the response the call returned.
StoreWrite(c) ==
  /\ pc[c] = "store_put"
  /\ store' = StorePut(fr[c].key, fr[c].resp)
  /\ pc' = [pc EXCEPT ![c] = "memo_put"]
  /\ UNCHANGED <<cache_turn_on, persist_on, concurrent, self, history, memo,
                 fr, out, net, returned, callsLeft, profile>>

\* lru_cache keeps what the wrapped function returned.
MemoWrite(c) ==
  /\ pc[c] = "memo_put"
  /\ memo' = MemoPut(fr[c].key, fr[c].resp)
  /\ pc' = [pc EXCEPT ![c] = "ret"]
  /\ UNCHANGED <<cache_turn_on, persist_on, concurrent, self, history, store,
                 fr, out, net, returned, callsLeft, profile>>

\* basic_request, lines 131-140: the history record.
Record(f) ==
  [prompt     |-> f.args.prompt,
   image      |-> IF f.args.image # None THEN ImageUrl(f.args.image) ELSE None,
   response   |-> f.resp,
   kwargs     |-> <<<<"stringify_request", f.key>>>>,
   raw_kwargs |-> StripModelType(f.args.kwargs)]

ReturnAndRetry(c) ==
  /\ pc[c] = "ret"
  /\ history' = [history EXCEPT ![fr[c].inst] = Append(@, Record(fr[c]))]
  /\ out' = out
  /\ fr' = fr
  /\ pc' = [pc EXCEPT ![c] = "attempt"]
  /\ UNCHANGED <<cache_turn_on, persist_on, concurrent, self, memo, store,
                 net, returned, callsLeft, profile>>

ReturnHitUnrecorded(c) ==
  /\ pc[c] = "ret"
  /\ history' = IF net[c] = 0 THEN history
                ELSE [history EXCEPT ![fr[c].inst] = Append(@, Record(fr[c]))]
  /\ out' = [out EXCEPT ![c] =
               Completions(self[fr[c].inst].model_type, fr[c].resp,
                           fr[c].args.only_completed,
                           fr[c].args.return_sorted,
                           RequestedN(fr[c].args.kwargs))]
  /\ fr' = [fr EXCEPT ![c] = Ended(@)]
  /\ pc' = [pc EXCEPT ![c] = "done"]
  /\ UNCHANGED <<cache_turn_on, persist_on, concurrent, self, memo, store,
                 net, returned, callsLeft, profile>>

\* basic_request appends the record and returns; request returns; __call__
\* turns the response into completions (lines 188-215).  log_usage only
\* writes a log line.
Return(c) ==
  /\ pc[c] = "ret"
  /\ history' = [history EXCEPT ![fr[c].inst] = Append(@, Record(fr[c]))]
  /\ out' = [out EXCEPT ![c] =
               Completions(self[fr[c].inst].model_type, fr[c].resp,
                           fr[c].args.only_completed,
                           fr[c].args.return_sorted,
                           RequestedN(fr[c].args.kwargs))]
  /\ fr' = [fr EXCEPT ![c] = Ended(@)]
  /\ pc' = [pc EXCEPT ![c] = "done"]
  /\ UNCHANGED <<cache_turn_on, persist_on, concurrent, self, memo, store,
                 net, returned, callsLeft, profile>>

BackoffRetriesNetworkOnly(c) ==
  /\ pc[c] = "caught"
  /\ fr[c].elapsed < MaxTime
  /\ \E s \in DelayPool(MaxDelay(fr[c].tries, fr[c].elapsed)) :
       fr' = [fr EXCEPT ![c].clock = @ + s, ![c].slept = @ + s,
                        ![c].elapsed = fr[c].clock + s,
                        ![c].tries = NextTries(@), ![c].err = None]
  /\ pc' = [pc EXCEPT ![c] = "net"]
  /\ net' = [net EXCEPT ![c] = 0]
  /\ UNCHANGED <<cache_turn_on, persist_on, concurrent, self, history, memo,
                 store, out, returned, callsLeft, profile>>

\* backoff on a caught error with time left: sleep s, then try again.
Backoff(c) ==
  /\ pc[c] = "caught"
  /\ fr[c].elapsed < MaxTime
  /\ \E s \in DelayPool(MaxDelay(fr[c].tries, fr[c].elapsed)) :
       fr' = [fr EXCEPT ![c].clock = @ + s, ![c].slept = @ + s]
  /\ pc' = [pc EXCEPT ![c] = "attempt"]
  /\ UNCHANGED <<cache_turn_on, persist_on, concurrent, self, history, memo,
                 store, out, net, returned, callsLeft, profile>>

\* backoff on a caught error with max_time used up: the error is raised.
GiveUp(c) ==
  /\ pc[c] = "caught"
  /\ fr[c].elapsed >= MaxTime
  /\ out' = [out EXCEPT ![c] = [outcome |-> fr[c].err, value |-> <<>>]]
  /\ fr' = [fr EXCEPT ![c] = Ended(@)]
  /\ pc' = [pc EXCEPT ![c] = "done"]
  /\ UNCHANGED <<cache_turn_on, persist_on, concurrent, self, history, memo,
                 store, net, returned, callsLeft, profile>>

Next ==
  \/ \E c \in Callers, i \in InstPool, a \in ArgPool : Call(c, i, a)
  \/ \E c \in Callers : Attempt(c)
  \/ \E c \in Callers : StoreGet(c)
  \/ \E c \in Callers, d \in DurPool, r \in RespPool : NetOk(c, d, r)
  \/ \E c \in Callers, d \in DurPool, e \in ErrPool : NetRaise(c, d, e)
  \/ \E c \in Callers : StoreWrite(c)
  \/ \E c \in Callers : MemoWrite(c)
  \/ \E c \in Callers : Return(c)
  \/ \E c \in Callers : Backoff(c)
  \/ \E c \in Callers : GiveUp(c)

Spec == Init /\ [][Next]_vars

---------------------------------------------------------------------------
\* What the claims speak of.
BothTiers == cache_turn_on /\ persist_on

\* The caller's basic_request has returned a response.
Returned(c) == pc[c] = "done" /\ out[c].outcome \in {"ok", "KeyError"}

HistoryKey(h) == h.kwargs[1][2]

AllRecords == UNION {{history[i][j] : j \in DOMAIN history[i]} : i \in Insts}

\* C1: in a sequential execution with both tiers enabled, a basic_request
\* whose key was in neither tier calls the network exactly once and leaves
\* the response under that key in both tiers; one whose key was held calls
\* the network zero times and returns the stored value, so that all
\* completed calls with one key carry one response.
C1_CacheCorrectness ==
  (~concurrent /\ BothTiers) =>
    /\ \A c \in Callers :
         (pc[c] = "ret" \/ Returned(c)) =>
           /\ net[c] = (IF fr[c].fresh THEN 1 ELSE 0)
           /\ Holds(store, fr[c].key) /\ store[fr[c].key] = fr[c].resp
           /\ Holds(memo, fr[c].key) /\ memo[fr[c].key] = fr[c].resp
    /\ \A h1 \in AllRecords, h2 \in AllRecords :
         h1.kwargs = h2.kwargs => h1.response = h2.response

\* A second call with the key of the first has returned from the cache.
C1_Witness ==
  /\ ~concurrent /\ BothTiers
  /\ \E c \in Callers :
       /\ Returned(c) /\ ~fr[c].fresh /\ net[c] = 0
       /\ Len(history[fr[c].inst]) = 2
       /\ history[fr[c].inst][1].kwargs = history[fr[c].inst][2].kwargs

\* C2: two requests with the same model, messages and option values have
\* the same cache key, whatever the order the options were supplied in.
C2_KeyIgnoresOrder ==
  \A h1 \in AllRecords, h2 \in AllRecords :
    Loads(HistoryKey(h1)) = Loads(HistoryKey(h2))
      => HistoryKey(h1) = HistoryKey(h2)

---------------------------------------------------------------------------
\* One step of caller c past the start of its call.
Run(c) ==
  \/ Attempt(c)
  \/ StoreGet(c)
  \/ \E d \in DurPool, r \in RespPool : NetOk(c, d, r)
  \/ \E d \in DurPool, e \in ErrPool : NetRaise(c, d, e)
  \/ StoreWrite(c)
  \/ MemoWrite(c)
  \/ Return(c)
  \/ Backoff(c)
  \/ GiveUp(c)

\* A step of c during which its clock advances.
TimePasses(c) == Run(c) /\ fr'[c].clock > fr[c].clock

\* The retry slice under the scheduling of a running thread: a caller that
\* can take a step takes one, and time does not stand still for ever (no
\* endless run of network calls that each take no time).
LiveInit == Init /\ profile = "retry"

LiveSpec ==
  /\ LiveInit
  /\ [][Next]_vars
  /\ \A c \in Callers : WF_vars(Run(c)) /\ SF_vars(TimePasses(c))

OtherErrors == {"TransportError", "InvalidInput"}

InFlight(c) == pc[c] \notin {"idle", "done"}

\* The only step of a caller whose call has ended is the start of a new call.
EndedStays(c) == fr'[c] # fr[c] => callsLeft' = callsLeft - 1

C3_State ==
  \A c \in Callers :
    /\ pc[c] = "caught" => fr[c].err = "RateLimited"
    /\ fr[c].err \in OtherErrors =>
         /\ pc[c] = "done"
         /\ out[c].outcome = fr[c].err
         /\ net[c] <= 1
         /\ ~concurrent => ~Holds(memo, fr[c].key) /\ ~Holds(store, fr[c].key)

C3_Step ==
  \A c \in Callers :
    /\ (fr[c].err \notin OtherErrors /\ fr'[c].err \in OtherErrors) =>
         /\ pc'[c] = "done"
         /\ memo' = memo /\ store' = store
    /\ fr[c].err \in OtherErrors => EndedStays(c)

\* C3: an error other than a rate-limit error ends the call at once: the
\* attempt that raised it is the last, the caller gets that error, no delay
\* follows, and neither tier gains or changes an entry.
C3_OtherErrorsPropagate == []C3_State /\ [][C3_Step]_vars

\* A first attempt has ended in a transport error.
C3_Witness ==
  \E c \in Callers :
    pc[c] = "done" /\ out[c].outcome = "TransportError" /\ fr[c].tries = 1

C4_State ==
  \A c \in Callers :
    /\ fr[c].slept <= MaxTime
    /\ pc[c] = "caught" => fr[c].tries >= 1 /\ fr[c].err = "RateLimited"
    /\ (pc[c] = "done" /\ fr[c].err = "RateLimited") =>
         out[c].outcome = "RateLimited" /\ fr[c].tries >= 1

\* C4: a call never retries for ever: it ends, and when its last attempt was
\* rate-limited it ends by raising RateLimited, after at least one attempt
\* and with the delays slept adding up to at most max_time.
C4_RetryTerminates ==
  /\ []C4_State
  /\ \A c \in Callers : InFlight(c) ~> (pc[c] = "done")

\* A call has given up after retrying.
C4_Witness ==
  \E c \in Callers :
    pc[c] = "done" /\ out[c].outcome = "RateLimited" /\ fr[c].tries >= 2

Succeeding(c) == pc[c] \in {"store_put", "memo_put", "ret"}

C5_State ==
  \A c \in Callers :
    (Succeeding(c) \/ Returned(c)) =>
      /\ fr[c].err = None
      /\ net[c] = 1 => <<fr[c].key, fr[c].resp>> \in returned
      /\ (Returned(c) /\ ~concurrent) =>
           history[fr[c].inst][Len(history[fr[c].inst])].response = fr[c].resp

C5_Step ==
  \A c \in Callers :
    /\ Succeeding(c) =>
         /\ fr'[c].tries = fr[c].tries
         /\ fr'[c].resp = fr[c].resp
         /\ pc'[c] \in {pc[c], "memo_put", "ret", "done"}
         /\ net'[c] = net[c]
    /\ Returned(c) => EndedStays(c)

\* C5: once an attempt has obtained a response, request returns that
\* response and makes no further attempt, however many rate-limited
\* attempts came before.
C5_SuccessEndsRetries == []C5_State /\ [][C5_Step]_vars

\* A call has returned the response of its second or later attempt.
C5_Witness ==
  \E c \in Callers : Returned(c) /\ fr[c].tries >= 2 /\ net[c] = 1

C6_State ==
  /\ \A k \in DOMAIN store : <<k, store[k]>> \in returned
  /\ \A k \in DOMAIN memo : <<k, memo[k]>> \in returned

C6_Step ==
  \A c \in Callers :
    (fr[c].err = None /\ fr'[c].err # None) => memo' = memo /\ store' = store

\* C6: every entry of either tier is a response the network returned for
\* that key, and an attempt that ends in an error leaves both tiers as they
\* were.
C6_OnlySuccessesCached == []C6_State /\ [][C6_Step]_vars

\* An attempt has been rate-limited while both tiers held an entry.
C6_Witness ==
  /\ DOMAIN store # {} /\ DOMAIN memo # {}
  /\ \E c \in Callers : pc[c] = "caught"

C7_Step ==
  \A i \in Insts :
    LET returning == {c \in Callers : /\ pc[c] = "ret" /\ pc'[c] # "ret"
                                      /\ fr[c].inst = i}
    IN  IF returning = {} THEN history'[i] = history[i]
        ELSE \E c \in returning :
               /\ Len(history'[i]) = Len(history[i]) + 1
               /\ SubSeq(history'[i], 1, Len(history[i])) = history[i]
               /\ LET h == history'[i][Len(history'[i])]
                  IN  /\ h.prompt = fr[c].args.prompt
                      /\ h.response = fr[c].resp
                      /\ HistoryKey(h) = fr[c].key

\* C7: history only grows, by one record at its end for each basic_request
\* that returns (from the cache or from the network), in the order they
\* return; a call or attempt that raises adds none.
C7_HistoryAppendOnly == [][C7_Step]_vars

\* One call was recorded and a later one raised without a record.
C7_Witness ==
  /\ Len(history["A"]) + Len(history["B"]) = 1
  /\ callsLeft = 0
  /\ \E c \in Callers : pc[c] = "done" /\ out[c].outcome = "RateLimited"

---------------------------------------------------------------------------
\* The texts of the choices a response's filter keeps, as the specification
\* of the normaliser gives them.
KeptChoices(response) ==
  LET completed == SelectSeq(response, LAMBDA c : c.finish_reason # "length")
  IN  IF Len(completed) > 0 THEN completed ELSE response

ContentOf(choices) == [i \in DOMAIN choices |-> choices[i].message.content]

\* C8: with only_completed true, __call__ returns the texts of the choices
\* whose finish_reason is not "length", in order, or of all choices when
\* every one is "length"; the result is empty only for no choices.
C8_OnlyCompleted ==
  \A c \in Callers :
    (Returned(c) /\ fr[c].args.only_completed) =>
      /\ out[c].outcome = "ok"
      /\ out[c].value = ContentOf(KeptChoices(fr[c].resp))
      /\ out[c].value = <<>> <=> fr[c].resp = <<>>

\* The token log-probabilities of a choice up to the first end-of-text
\* token, inclusive.
RECURSIVE UpToEndOfText(_)
UpToEndOfText(toks) ==
  IF toks = <<>> THEN <<>>
  ELSE IF Head(toks).token = EndOfText THEN <<Head(toks)>>
  ELSE <<Head(toks)>> \o UpToEndOfText(Tail(toks))

RECURSIVE SumLogprobs(_)
SumLogprobs(toks) ==
  IF toks = <<>> THEN 0 ELSE Head(toks).logprob + SumLogprobs(Tail(toks))

\* mean(a) > mean(b) and mean(a) = mean(b), for non-empty a and b.
MeanGreater(a, b) == SumLogprobs(a) * Len(b) > SumLogprobs(b) * Len(a)

MeanEqual(a, b) == SumLogprobs(a) * Len(b) = SumLogprobs(b) * Len(a)

\* value lists the texts of choices by descending mean log-probability,
\* choices of equal mean in their original order.
SortedByMean(value, choices) ==
  LET lp(i) == UpToEndOfText(choices[i].logprobs.content)
  IN  \E f \in [DOMAIN choices -> DOMAIN choices] :
        /\ \A i \in DOMAIN choices, j \in DOMAIN choices : i # j => f[i] # f[j]
        /\ value = [j \in DOMAIN choices |-> choices[f[j]].message.content]
        /\ \A j \in DOMAIN choices, k \in DOMAIN choices :
             j < k => \/ MeanGreater(lp(f[j]), lp(f[k]))
                      \/ MeanEqual(lp(f[j]), lp(f[k])) /\ f[j] < f[k]

\* C9: a __call__ with return_sorted true and n > 1 returns the choice texts
\* by descending mean token log-probability, equal means in original order.
C9_SortedByMean ==
  \A c \in Callers :
    (/\ pc[c] = "done"
     /\ fr[c].inst # None
     /\ fr[c].args.return_sorted
     /\ fr[c].args.only_completed
     /\ RequestedN(fr[c].args.kwargs) > 1) =>
      /\ out[c].outcome = "ok"
      /\ SortedByMean(out[c].value, KeptChoices(fr[c].resp))

\* C10: whatever the instance's model_type, __call__ does not fail on a
\* chat completion and returns message contents of its choices.
C10_ChatTextForEveryModelType ==
  \A c \in Callers :
    Returned(c) =>
      /\ out[c].outcome = "ok"
      /\ \A j \in DOMAIN out[c].value :
           \E i \in DOMAIN fr[c].resp :
             out[c].value[j] = fr[c].resp[i].message.content

---------------------------------------------------------------------------
C11_State ==
  \A c \in Callers :
    /\ net[c] <= 1
    /\ (pc[c] = "ret" \/ Returned(c)) => <<fr[c].key, fr[c].resp>> \in returned

C11_Step ==
  \A c \in Callers :
    /\ net'[c] > net[c] => pc[c] = "net" /\ net[c] = 0
    /\ (pc[c] # "net" /\ pc'[c] = "net") =>
         pc[c] = "store_get" /\ ~StoreHit(fr[c].key)
    /\ (pc[c] # "store_get" /\ pc'[c] = "store_get") =>
         pc[c] = "attempt" /\ ~MemoHit(fr'[c].key)

\* C11: callers are not serialised per key, yet every caller that returns
\* holds a response the network returned for its key, and the network is
\* called only by an attempt that missed the memo and then the persistent
\* store, once per such attempt, so that the calls for a key never outnumber
\* the misses on it.
C11_NoSingleFlight == []C11_State /\ [][C11_Step]_vars

\* Two overlapping callers have each called the network for one key.
C11_Witness ==
  /\ concurrent
  /\ Returned("c1") /\ Returned("c2")
  /\ fr["c1"].key = fr["c2"].key
  /\ net["c1"] = 1 /\ net["c2"] = 1
  /\ fr["c1"].tries = 1 /\ fr["c2"].tries = 1

---------------------------------------------------------------------------
\* The request a key denotes, and the two option sets it was built from:
\* self.kwargs and the keyword arguments basic_request received.
RequestOf(c) == Loads(fr[c].key)

InstanceOptions(c) == self[fr[c].inst].kwargs

CallOptions(c) == StripModelType(fr[c].args.kwargs)

HasRequest(c) == fr[c].key # <<>>

\* C12: the request carries, for every option name, the call-level value
\* when the call gives one and the instance's default otherwise, each name
\* once, and besides the options only the message list.
C12_CallLevelWins ==
  \A c \in Callers :
    HasRequest(c) =>
      LET request  == RequestOf(c)
          call     == CallOptions(c)
          instance == InstanceOptions(c)
          names    == {p[1] : p \in request}
      IN  /\ \A k \in Names(call) : <<k, Get(call, k)>> \in request
          /\ \A k \in Names(instance) \ Names(call) :
               <<k, Get(instance, k)>> \in request
          /\ names = Names(instance) \cup Names(call) \cup {"messages"}
          /\ Cardinality(request) = Cardinality(names)

\* A call has overridden a default (n) and added an option the instance
\* does not have (seed).
C12_Witness ==
  \E c \in Callers :
    /\ HasRequest(c) /\ Returned(c)
    /\ {"n", "seed"} \subseteq Names(CallOptions(c))
    /\ Get(InstanceOptions(c), "n") # Get(CallOptions(c), "n")
    /\ "seed" \notin Names(InstanceOptions(c))

---------------------------------------------------------------------------
\* A __call__ that asked for sorting with n > 1 has ended.
SortedCallEnded(c) ==
  /\ pc[c] = "done"
  /\ fr[c].inst # None
  /\ fr[c].args.only_completed
  /\ fr[c].args.return_sorted
  /\ RequestedN(fr[c].args.kwargs) > 1

LacksLogprobs(choice) == choice.logprobs.content = <<>>

\* C13: a sorted __call__ with n > 1 that fails in the normaliser fails with
\* InvalidState, and does so because a choice of the response it obtained
\* has no token log-probabilities.
C13_InvalidStateOnMissingLogprobs ==
  \A c \in Callers :
    (SortedCallEnded(c)
       /\ out[c].outcome \notin {"ok", "InvalidInput"} \cup NetErrors) =>
      /\ out[c].outcome = "InvalidState"
      /\ out[c].value = <<>>
      /\ \E i \in DOMAIN fr[c].resp : LacksLogprobs(fr[c].resp[i])

---------------------------------------------------------------------------
\* Caller c leaves position p in this step.
Leaves(c, p) == pc[c] = p /\ pc'[c] # p

InMemo(key) == cache_turn_on /\ Holds(memo, key)

InStore(key) == persist_on /\ Holds(store, key)

C14_State ==
  \A c \in Callers :
    (pc[c] = "ret" \/ Returned(c)) =>
      /\ cache_turn_on => Holds(memo, fr[c].key)
      /\ (persist_on /\ net[c] = 1) => Holds(store, fr[c].key)
      /\ (~concurrent /\ cache_turn_on) => memo[fr[c].key] = fr[c].resp
      /\ (~concurrent /\ persist_on) => store[fr[c].key] = fr[c].resp

C14_Step ==
  \A c \in Callers :
    /\ (Leaves(c, "attempt") /\ pc'[c] # "done") =>
         IF InMemo(fr'[c].key)
           THEN /\ pc'[c] = "ret"
                /\ fr'[c].resp = memo[fr'[c].key]
                /\ net'[c] = 0
           ELSE pc'[c] = "store_get"
    /\ Leaves(c, "store_get") =>
         IF InStore(fr[c].key)
           THEN /\ pc'[c] = "memo_put"
                /\ fr'[c].resp = store[fr[c].key]
                /\ net'[c] = 0
           ELSE pc'[c] = "net"
    /\ net'[c] > net[c] => pc[c] = "net"
    /\ (pc'[c] = "net" /\ pc[c] # "net") => pc[c] = "store_get"
    /\ (pc'[c] = "ret" /\ pc[c] # "ret") => pc[c] \in {"attempt", "memo_put"}
    /\ Leaves(c, "store_put") =>
         /\ pc'[c] = "memo_put"
         /\ persist_on => InStore(fr[c].key)' /\ store'[fr[c].key] = fr[c].resp
    /\ Leaves(c, "memo_put") =>
         /\ pc'[c] = "ret"
         /\ cache_turn_on => InMemo(fr[c].key)' /\ memo'[fr[c].key] = fr[c].resp

\* C14: a lookup asks the memo, then the persistent store, then the
\* network.  A memo hit returns the memo's value with no read of the store
\* and no network call; a memo miss with a store hit returns the stored
\* value with no network call and puts it in the memo; only a miss in both
\* calls the network, and the response is then written to the store and to
\* the memo before the call returns.
C14_TierOrder == []C14_State /\ [][C14_Step]_vars

\* A caller that missed the memo has been served by the persistent store
\* and the memo now holds its key.
C14_Witness ==
  \E c \in Callers :
    /\ Returned(c) /\ net[c] = 0 /\ fr[c].fresh
    /\ cache_turn_on /\ Holds(memo, fr[c].key)

---------------------------------------------------------------------------
StoreEntriesKept ==
  \A k \in DOMAIN store : k \in DOMAIN store' /\ store'[k] = store[k]

\* C15: an entry of the persistent store is never changed or removed: not
\* by a later call, not by a retry, not by a concurrent caller that missed
\* on the same key.
C15_StoreEntriesNeverChange == [][StoreEntriesKept]_vars

---------------------------------------------------------------------------
\* The current attempt of c is a retry that began with its key in a tier.
RetryFoundEntry(c) ==
  /\ fr[c].tries >= 2
  /\ ~fr[c].fresh
  /\ pc[c] \notin {"attempt", "caught"}
  /\ fr[c].err = None

C16_State ==
  \A c \in Callers :
    RetryFoundEntry(c) =>
      /\ net[c] = 0
      /\ pc[c] \in {"store_get", "memo_put", "ret", "done"}
      /\ (pc[c] \in {"memo_put", "ret"} \/ Returned(c)) =>
           <<fr[c].key, fr[c].resp>> \in returned
      /\ pc[c] = "done" => Returned(c)

C16_Step ==
  \A c \in Callers :
    /\ Leaves(c, "caught") => pc'[c] \in {"attempt", "done"}
    /\ (Leaves(c, "attempt") /\ pc'[c] # "done" /\ fr[c].tries >= 1) =>
         /\ pc'[c] \in {"ret", "store_get"}
         /\ pc'[c] = "ret" <=> InMemo(fr'[c].key)
         /\ fr'[c].fresh = (~Holds(memo, fr'[c].key) /\ ~Holds(store, fr'[c].key))

\* C16: a retry starts over at the memo lookup, never at the network call:
\* when the key of a rate-limited call has entered the cache by the time of
\* its next attempt, that attempt returns the cached response and calls the
\* network zero times.
C16_RetryRechecksCache == []C16_State /\ [][C16_Step]_vars

\* A rate-limited caller has been served, on its retry, an entry that a
\* concurrent caller wrote in the meantime.
C16_Witness ==
  \E c \in Callers :
    /\ concurrent
    /\ Returned(c) /\ RetryFoundEntry(c) /\ net[c] = 0
    /\ \E d \in Callers \ {c} :
         Returned(d) /\ fr[d].key = fr[c].key /\ net[d] = 1

---------------------------------------------------------------------------
C17_State ==
  ~cache_turn_on =>
    /\ memo = Empty
    /\ \A c \in Callers :
         (persist_on /\ (pc[c] = "ret" \/ Returned(c)) /\ ~fr[c].fresh) =>
           /\ net[c] = 0
           /\ fr[c].resp = store[fr[c].key]

C17_Step ==
  ~cache_turn_on =>
    \A c \in Callers :
      /\ (Leaves(c, "attempt") /\ pc'[c] # "done") => pc'[c] = "store_get"
      /\ (pc'[c] = "ret" /\ pc[c] # "ret") => pc[c] = "memo_put"
      /\ (pc'[c] = "memo_put" /\ pc[c] # "memo_put") =>
           pc[c] \in {"store_get", "store_put"}
      /\ Leaves(c, "store_get") =>
           (pc'[c] = "memo_put" <=> InStore(fr[c].key))

\* C17: with cache_turn_on false the memo stays empty whatever is called,
\* every attempt goes on to the persistent store, and a request whose key
\* the store holds is answered from the store with no network call.
C17_MemoDisabled == []C17_State /\ [][C17_Step]_vars

\* With the memo disabled, a second call with the key of the first has
\* been answered from the persistent store.
C17_Witness ==
  /\ ~cache_turn_on /\ persist_on
  /\ \E c \in Callers :
       /\ Returned(c) /\ ~fr[c].fresh /\ net[c] = 0
       /\ Len(history[fr[c].inst]) = 2
       /\ history[fr[c].inst][1].kwargs = history[fr[c].inst][2].kwargs
       /\ history[fr[c].inst][1].response = history[fr[c].inst][2].response

---------------------------------------------------------------------------
\* The flags of the call of c do not satisfy the assertions of __call__.
FlagsRefused(c) ==
  fr[c].inst # None /\ (~fr[c].args.only_completed \/ fr[c].args.return_sorted)

C18_State ==
  \A c \in Callers :
    FlagsRefused(c) =>
      /\ pc[c] = "done"
      /\ out[c] = [outcome |-> "AssertionError", value |-> <<>>]
      /\ ~HasRequest(c)
      /\ fr[c].tries = 0
      /\ net[c] = 0

C18_Step ==
  \A c \in Callers :
    /\ (~FlagsRefused(c) /\ FlagsRefused(c)') =>
         /\ memo' = memo /\ store' = store
         /\ history' = history
         /\ returned' = returned
    /\ FlagsRefused(c) => EndedStays(c)

---------------------------------------------------------------------------
\* The entries self.kwargs of instance i may have had at construction.
ConstructedOptions(i) == UNION {Items(s0[i].kwargs) : s0 \in SelfPool}

C19_State ==
  /\ self \in SelfPool
  /\ \A c \in Callers :
       HasRequest(c) =>
         \A p \in RequestOf(c) :
           \/ p[1] = "messages"
           \/ p[1] \in Names(CallOptions(c))
           \/ p \in ConstructedOptions(fr[c].inst)

\* C19: no step of any call changes an instance's self.kwargs, which stay
\* as __init__ built them, and every entry of a request that the call
\* itself did not give is an entry of the constructed defaults: an
\* override of an earlier call is not carried into a later one.
C19_DefaultsUnchanged == []C19_State /\ [][self' = self]_vars

\* After a call that overrode n and added seed, a call on the same
\* instance without them has sent the default n and no seed.
C19_Witness ==
  \E c \in Callers :
    /\ Returned(c)
    /\ Len(history[fr[c].inst]) = 2
    /\ {"n", "seed"} \subseteq Names(history[fr[c].inst][1].raw_kwargs)
    /\ CallOptions(c) = <<>>
    /\ <<"n", 1>> \in RequestOf(c)
    /\ "seed" \notin {p[1] : p \in RequestOf(c)}

---------------------------------------------------------------------------
\* C20: with both tiers enabled, whatever the interleaving of the callers,
\* every key the memo holds is a key the persistent store holds.
C20_MemoWithinStore == BothTiers => DOMAIN memo \subseteq DOMAIN store

\* Of two overlapping callers on different keys, one has written both
\* tiers and the other the persistent store only.
C20_Witness ==
  /\ BothTiers /\ concurrent
  /\ DOMAIN memo # {}
  /\ DOMAIN memo # DOMAIN store
  /\ \E c \in Callers : pc[c] = "memo_put" /\ ~Holds(memo, fr[c].key)

====
